---- MODULE Spec2Model ----
(***************************************************************************)
(* Model of src/inventory_system.rs: the three specs systems               *)
(* ItemCollectionSystem, ItemUseSystem and ItemDropSystem, run over the    *)
(* component storages of a small world.                                    *)
(*                                                                         *)
(* A storage is a function whose DOMAIN is the set of entities that hold   *)
(* the component.  Option<Point> is <<>> (None) or <<p>> (Some(p)); a      *)
(* point is <<x, y>>.  A panic (unwrap / expect on a missing value)        *)
(* unwinds out of System::run and sets `panicked`; nothing runs after it.  *)
(***************************************************************************)
EXTENDS Integers, Sequences, FiniteSets, TLC

\* ---------------------------------------------------------------- bounds
MaxHp == 3
MaxAmount == 2
MaxPasses == 2
MapWidth == 5
MapHeight == 3

\* ---------------------------------------------------------------- world
player_entity == 1
Actors == {1, 2}
Items == {3, 4}
Entity == Actors \cup Items

Points == (0 .. MapWidth - 1) \X (0 .. MapHeight - 1)

VARIABLES
    positions,       \* WriteStorage<Position>:      entity -> <<x, y>>
    backpack,        \* WriteStorage<InBackpack>:    entity -> owner
    names,           \* ReadStorage<Name>:           set of named entities
    consumables,     \* ReadStorage<Consumable>:     set of entities
    combat_stats,    \* WriteStorage<CombatStats>:   entity -> [hp, max_hp]
    healing,         \* ProvidesHealing:             entity -> heal_amount
    inflict_damage,  \* InflictsDamage:              entity -> damage
    aoe,             \* AreaOfEffect:                entity -> radius
    confused,        \* WriteStorage<Confusion>:     entity -> turns
    suffer_damage,   \* WriteStorage<SufferDamage>:  entity -> pending total
    wants_use,       \* WantsToUseItem:   entity -> [item, target]
    wants_pickup,    \* WantsToPickupItem: entity -> [item, collected_by]
    wants_drop,      \* WantsToDropItem:  entity -> [item]
    gamelog,         \* GameLog.entries
    tile_content,    \* Map.tile_content: idx -> Seq(entity)
    deleted,         \* entities on which Entities::delete has been called
    phase,           \* which System::run is executing ("idle" between runs)
    todo,            \* entities the running join has not yet yielded
    pc,              \* position inside the current loop iteration
    entity,          \* the join's current (last yielded) entity, 0 before any
    targets,         \* local `targets` of the last ItemUseSystem iteration
    used_item,       \* local `used_item` of the last ItemUseSystem iteration
    passes,          \* number of System::run calls started
    panicked         \* a panic has unwound the running system

vars == <<positions, backpack, names, consumables, combat_stats, healing,
          inflict_damage, aoe, confused, suffer_damage, wants_use,
          wants_pickup, wants_drop, gamelog, tile_content, deleted, phase,
          todo, pc, entity, targets, used_item, passes, panicked>>

\* Storages no system of this file writes.
readonly == <<names, consumables, healing, inflict_damage, aoe, tile_content>>

\* ---------------------------------------------------------------- helpers
Min(a, b) == IF a < b THEN a ELSE b

Insert(f, k, v) == [x \in (DOMAIN f) \cup {k} |-> IF x = k THEN v ELSE f[x]]

Remove(f, k) == [x \in (DOMAIN f) \ {k} |-> f[x]]

Empty == [x \in {} |-> 0]

RECURSIVE Concat(_)
Concat(ss) == IF ss = <<>> THEN <<>> ELSE Head(ss) \o Concat(Tail(ss))

Orderings(S) ==
    {s \in [1 .. Cardinality(S) -> S] : \A i, j \in DOMAIN s : i # j => s[i] # s[j]}

xy_idx(x, y) == y * MapWidth + x

TileIndices == 0 .. (MapWidth * MapHeight - 1)

\* The index the map keeps of who stands where, built from Position in
\* ascending entity order.
RECURSIVE Occupants(_, _, _)
Occupants(pos, idx, e) ==
    IF e > Cardinality(Entity) THEN <<>>
    ELSE (IF e \in DOMAIN pos /\ xy_idx(pos[e][1], pos[e][2]) = idx
          THEN <<e>> ELSE <<>>) \o Occupants(pos, idx, e + 1)

IndexMap(pos) == [idx \in TileIndices |-> Occupants(pos, idx, 1)]

\* ------------------------------------------------- ItemUseSystem: targeting
\* rltk::field_of_view(target, radius, map) on a map without opaque tiles:
\* the in-map points within `radius` of `target`.
field_of_view(target, radius) ==
    {p \in Points :
        (p[1] - target[1]) * (p[1] - target[1])
      + (p[2] - target[2]) * (p[2] - target[2]) <= radius * radius}

\* Mutant of Retained: the comparisons are inclusive.
RetainedInclusive(p) ==
    p[1] >= 0 /\ p[1] <= MapWidth - 1 /\ p[2] >= 0 /\ p[2] <= MapHeight - 1

\* The predicate of blast_tiles.retain: strictly inside the map's border.
Retained(p) ==
    p[1] > 0 /\ p[1] < MapWidth - 1 /\ p[2] > 0 /\ p[2] < MapHeight - 1

\* Mutant of blast_tiles: the radius is one too large.
blast_tiles_wide(target, radius) ==
    {p \in field_of_view(target, radius + 1) : Retained(p)}

blast_tiles(target, radius) == {p \in field_of_view(target, radius) : Retained(p)}

\* match useitem.target { None => ... }
NoneTargets(requester) == <<player_entity>>

\* Mutant of TileTargets: only the first occupant of the cell is taken.
TileTargetsFirst(target) ==
    LET c == tile_content[xy_idx(target[1], target[2])]
    IN IF c = <<>> THEN <<>> ELSE <<Head(c)>>

\* "Simple target in tile": the occupants of the aimed cell, in index order.
TileTargets(target) == tile_content[xy_idx(target[1], target[2])]

\* AoE: the occupants of every retained tile.  field_of_view yields its
\* points in no specified order, so every order is a possible `targets`.
AoETargets(target, radius) ==
    {Concat([i \in DOMAIN o |-> tile_content[xy_idx(o[i][1], o[i][2])]]) :
        o \in Orderings(blast_tiles(target, radius))}

\* All values the local `targets` can have after the targeting match.
Targeting(requester, useitem) ==
    IF useitem.target = <<>> THEN {NoneTargets(requester)}
    ELSE IF useitem.item \notin DOMAIN aoe THEN {TileTargets(useitem.target[1])}
    ELSE AoETargets(useitem.target[1], aoe[useitem.item])

\* ------------------------------------------------- ItemUseSystem: effects
LogEntry(kind, item, target, amount) ==
    [kind |-> kind, item |-> item, target |-> target, amount |-> amount]

\* Mutant of HealedHp: the cap at max_hp is missing.
HealedHpUncapped(stats, heal_amount) == stats.hp + heal_amount

\* stats.hp = i32::min(stats.max_hp, stats.hp + healer.heal_amount)
HealedHp(stats, heal_amount) == Min(stats.max_hp, stats.hp + heal_amount)

\* The loop state threaded through one iteration of the intent loop:
\* stats = combat_stats, dmg = suffer_damage, log = gamelog.entries,
\* used = used_item, add = add_confusion, panic = an unwrap has failed.
RECURSIVE HealLoop(_, _, _, _)
HealLoop(s, requester, item, ts) ==
    IF ts = <<>> \/ s.panic THEN s
    ELSE LET target == Head(ts) IN
         IF target \notin DOMAIN s.stats THEN HealLoop(s, requester, item, Tail(ts))
         ELSE LET healed == [s EXCEPT !.stats[target].hp =
                                 HealedHp(s.stats[target], healing[item])]
              IN IF requester # player_entity
                    THEN HealLoop(healed, requester, item, Tail(ts))
                 ELSE IF item \notin names
                    THEN [healed EXCEPT !.panic = TRUE]
                 ELSE HealLoop([healed EXCEPT !.log =
                                   Append(@, LogEntry("heal", item, 0, healing[item]))],
                               requester, item, Tail(ts))

HealingBlock(s, requester, item, ts) ==
    IF s.panic \/ item \notin DOMAIN healing THEN s
    ELSE HealLoop(s, requester, item, ts)

\* SufferDamage::new_damage(store, victim, amount): add `amount` to the
\* victim's pending damage, creating the entry when there is none.
new_damage(store, victim, amount) ==
    IF victim \in DOMAIN store
    THEN [store EXCEPT ![victim] = @ + amount]
    ELSE Insert(store, victim, amount)

\* Mutant of DamageTarget: new_damage is called inside the
\* `if entity == *player_entity` block.
DamageTargetPlayerOnly(s, requester, item, target) ==
    IF requester # player_entity THEN [s EXCEPT !.used = TRUE]
    ELSE LET hit == [s EXCEPT !.dmg = new_damage(s.dmg, target, inflict_damage[item])]
         IN IF target \notin names \/ item \notin names
               THEN [hit EXCEPT !.panic = TRUE]
            ELSE [hit EXCEPT !.used = TRUE,
                             !.log = Append(@, LogEntry("damage", item, target,
                                                        inflict_damage[item]))]

\* Mutant of DamageTarget: the damage is also taken off the target's hp.
DamageTargetApplies(s, requester, item, target) ==
    LET hit == [s EXCEPT !.dmg = new_damage(s.dmg, target, inflict_damage[item]),
                         !.stats = IF target \in DOMAIN s.stats
                                   THEN [s.stats EXCEPT ![target].hp = @ - inflict_damage[item]]
                                   ELSE s.stats]
    IN IF requester # player_entity THEN [hit EXCEPT !.used = TRUE]
       ELSE IF target \notin names \/ item \notin names
          THEN [hit EXCEPT !.panic = TRUE]
       ELSE [hit EXCEPT !.used = TRUE,
                        !.log = Append(@, LogEntry("damage", item, target,
                                                   inflict_damage[item]))]

\* One trip through the body of `for target in targets.iter()` of the
\* damage block.
DamageTarget(s, requester, item, target) ==
    LET hit == [s EXCEPT !.dmg = new_damage(s.dmg, target, inflict_damage[item])]
    IN IF requester # player_entity THEN [hit EXCEPT !.used = TRUE]
       ELSE IF target \notin names \/ item \notin names
          THEN [hit EXCEPT !.panic = TRUE]
       ELSE [hit EXCEPT !.used = TRUE,
                        !.log = Append(@, LogEntry("damage", item, target,
                                                   inflict_damage[item]))]

RECURSIVE DamageLoop(_, _, _, _)
DamageLoop(s, requester, item, ts) ==
    IF ts = <<>> \/ s.panic THEN s
    ELSE DamageLoop(DamageTarget(s, requester, item, Head(ts)),
                    requester, item, Tail(ts))

\* Mutant of EnterEffect: used_item is not reset.
EnterEffectKeep(s) == s

\* used_item = false on entering the Some(..) arm of a damage or confusion
\* match.
EnterEffect(s) == [s EXCEPT !.used = FALSE]

DamageBlock(s, requester, item, ts) ==
    IF s.panic \/ item \notin DOMAIN inflict_damage THEN s
    ELSE DamageLoop(EnterEffect(s), requester, item, ts)

\* One trip through the body of the confusion staging loop.
StageTarget(s, requester, item, target, turns) ==
    LET staged == [s EXCEPT !.used = TRUE, !.add = Append(@, <<target, turns>>)]
    IN IF requester # player_entity THEN staged
       ELSE IF target \notin names \/ item \notin names
          THEN [staged EXCEPT !.panic = TRUE]
       ELSE [staged EXCEPT !.log = Append(@, LogEntry("confuse", item, target, 0))]

RECURSIVE StageLoop(_, _, _, _, _)
StageLoop(s, requester, item, ts, turns) ==
    IF ts = <<>> \/ s.panic THEN s
    ELSE StageLoop(StageTarget(s, requester, item, Head(ts), turns),
                   requester, item, Tail(ts), turns)

\* `store` is the Confusion storage as it is when the iteration starts.
ConfusionBlock(s, store, requester, item, ts) ==
    IF s.panic \/ item \notin DOMAIN store THEN s
    ELSE StageLoop(EnterEffect(s), requester, item, ts, store[item])

\* Mutant of InsertConfusion: the turns are added to a Confusion already there.
InsertConfusionAdd(store, mob, turns) ==
    Insert(store, mob, turns + (IF mob \in DOMAIN store THEN store[mob] ELSE 0))

\* confused.insert(mob.0, Confusion { turns: mob.1 })
InsertConfusion(store, mob, turns) == Insert(store, mob, turns)

RECURSIVE CommitConfusion(_, _)
CommitConfusion(store, add) ==
    IF add = <<>> THEN store
    ELSE CommitConfusion(InsertConfusion(store, Head(add)[1], Head(add)[2]), Tail(add))

\* Mutant of DeletesItem: the used_item flag is ignored.
DeletesItemAlways(used, item) == item \in consumables

\* if used_item { match consumables.get(useitem.item) { Some(_) => delete } }
DeletesItem(used, item) == used /\ item \in consumables

\* Mutant of ApplyEffects: the damage block comes before the healing block.
ApplyEffectsDamageFirst(requester, useitem, ts) ==
    LET s0 == [stats |-> combat_stats, dmg |-> suffer_damage, log |-> gamelog,
               used |-> TRUE, add |-> <<>>, panic |-> FALSE]
        s1 == DamageBlock(s0, requester, useitem.item, ts)
        s2 == HealingBlock(s1, requester, useitem.item, ts)
    IN ConfusionBlock(s2, confused, requester, useitem.item, ts)

\* The whole body of the intent loop for the intent held by `requester`,
\* with `ts` the value of `targets`.
ApplyEffects(requester, useitem, ts) ==
    LET s0 == [stats |-> combat_stats, dmg |-> suffer_damage, log |-> gamelog,
               used |-> TRUE, add |-> <<>>, panic |-> FALSE]
        s1 == HealingBlock(s0, requester, useitem.item, ts)
        s2 == DamageBlock(s1, requester, useitem.item, ts)
    IN ConfusionBlock(s2, confused, requester, useitem.item, ts)

\* ------------------------------------------------- ItemUseSystem::run
BeginUse ==
    /\ phase = "idle" /\ ~panicked /\ passes < MaxPasses
    /\ phase' = "use"
    /\ todo' = DOMAIN wants_use
    /\ passes' = passes + 1
    /\ entity' = 0 /\ targets' = <<>> /\ used_item' = TRUE
    /\ UNCHANGED <<positions, backpack, combat_stats, confused, suffer_damage,
                   wants_use, wants_pickup, wants_drop, gamelog, deleted, pc,
                   panicked, readonly>>

\* One iteration of `for (entity, useitem) in (&entities, &wants_use).join()`.
\* Entity ids are opaque, so the join may yield the intents in any order.
UseItem(e) ==
    /\ phase = "use" /\ ~panicked /\ e \in todo
    /\ \E ts \in Targeting(e, wants_use[e]) :
         LET useitem == wants_use[e]
             s == ApplyEffects(e, useitem, ts)
         IN /\ combat_stats' = s.stats
            /\ suffer_damage' = s.dmg
            /\ gamelog' = s.log
            /\ panicked' = s.panic
            /\ confused' = IF s.panic THEN confused
                           ELSE CommitConfusion(confused, s.add)
            /\ deleted' = IF ~s.panic /\ DeletesItem(s.used, useitem.item)
                          THEN deleted \cup {useitem.item} ELSE deleted
            /\ targets' = ts
            /\ used_item' = s.used
    /\ entity' = e
    /\ todo' = todo \ {e}
    /\ UNCHANGED <<positions, backpack, wants_use, wants_pickup, wants_drop,
                   phase, pc, passes, readonly>>

\* Mutant of EndUse: the intents are cleared as the other two systems do.
EndUseClears ==
    /\ phase = "use" /\ ~panicked /\ todo = {}
    /\ phase' = "idle"
    /\ wants_use' = Empty
    /\ UNCHANGED <<positions, backpack, combat_stats, confused, suffer_damage,
                   wants_pickup, wants_drop, gamelog, deleted, todo,
                   pc, entity, targets, used_item, passes, panicked, readonly>>

EndUse ==
    /\ phase = "use" /\ ~panicked /\ todo = {}
    /\ phase' = "idle"
    /\ UNCHANGED <<positions, backpack, combat_stats, confused, suffer_damage,
                   wants_use, wants_pickup, wants_drop, gamelog, deleted, todo,
                   pc, entity, targets, used_item, passes, panicked, readonly>>

\* ------------------------------------------------- ItemCollectionSystem::run
WantsToPickupItem(item, collected_by) == [item |-> item, collected_by |-> collected_by]

BeginPickup ==
    /\ phase = "idle" /\ ~panicked /\ passes < MaxPasses
    /\ phase' = "pickup"
    /\ todo' = DOMAIN wants_pickup
    /\ passes' = passes + 1
    /\ entity' = 0 /\ pc' = "next"
    /\ UNCHANGED <<positions, backpack, combat_stats, confused, suffer_damage,
                   wants_use, wants_pickup, wants_drop, gamelog, deleted,
                   targets, used_item, panicked, readonly>>

\* positions.remove(pickup.item)
PickupRemove(pos, pickup) == Remove(pos, pickup.item)

\* backpack.insert(pickup.item, InBackpack { owner: pickup.collected_by });
\* the insert replaces an InBackpack the item already has, and fails only
\* for a dead entity, which Entities::delete does not produce before
\* World::maintain.
PickupInsert(pack, pickup) == Insert(pack, pickup.item, pickup.collected_by)

\* The join yields the next pickup intent and the item's Position is removed.
PickupRemovePosition(e) ==
    /\ phase = "pickup" /\ ~panicked /\ pc = "next" /\ e \in todo
    /\ positions' = PickupRemove(positions, wants_pickup[e])
    /\ entity' = e
    /\ todo' = todo \ {e}
    /\ pc' = "insert"
    /\ UNCHANGED <<backpack, combat_stats, confused, suffer_damage, wants_use,
                   wants_pickup, wants_drop, gamelog, deleted, phase, targets,
                   used_item, passes, panicked, readonly>>

\* InBackpack is inserted, then the player's pickup is logged.
PickupInsertBackpack ==
    /\ phase = "pickup" /\ ~panicked /\ pc = "insert"
    /\ LET pickup == wants_pickup[entity] IN
         /\ backpack' = PickupInsert(backpack, pickup)
         /\ IF pickup.collected_by # player_entity
               THEN UNCHANGED <<gamelog, panicked>>
            ELSE IF pickup.item \in names
               THEN /\ gamelog' = Append(gamelog, LogEntry("pickup", pickup.item, 0, 0))
                    /\ UNCHANGED panicked
            ELSE /\ panicked' = TRUE
                 /\ UNCHANGED gamelog
    /\ pc' = "next"
    /\ UNCHANGED <<positions, combat_stats, confused, suffer_damage, wants_use,
                   wants_pickup, wants_drop, deleted, phase, todo, entity,
                   targets, used_item, passes, readonly>>

\* wants_pickup.clear()
EndPickup ==
    /\ phase = "pickup" /\ ~panicked /\ pc = "next" /\ todo = {}
    /\ wants_pickup' = Empty
    /\ phase' = "idle"
    /\ UNCHANGED <<positions, backpack, combat_stats, confused, suffer_damage,
                   wants_use, wants_drop, gamelog, deleted, todo, pc, entity,
                   targets, used_item, passes, panicked, readonly>>

\* ------------------------------------------------- ItemDropSystem::run
WantsToDropItem(item) == [item |-> item]

BeginDrop ==
    /\ phase = "idle" /\ ~panicked /\ passes < MaxPasses
    /\ phase' = "drop"
    /\ todo' = DOMAIN wants_drop
    /\ passes' = passes + 1
    /\ entity' = 0 /\ pc' = "next"
    /\ UNCHANGED <<positions, backpack, combat_stats, confused, suffer_damage,
                   wants_use, wants_pickup, wants_drop, gamelog, deleted,
                   targets, used_item, panicked, readonly>>

\* Mutant of DropInsert: dropper_pos keeps its initial { x: 0, y: 0 }.
DropInsertOrigin(pos, dropper, to_drop) == Insert(pos, to_drop.item, <<0, 0>>)

\* positions.insert(to_drop.item, Position { x: dropper_pos.x, y: dropper_pos.y })
DropInsert(pos, dropper, to_drop) == Insert(pos, to_drop.item, pos[dropper])

\* Mutant of DropRemove: the InBackpack is left in place.
DropRemoveKeep(pack, to_drop) == pack

\* backpack.remove(to_drop.item)
DropRemove(pack, to_drop) == Remove(pack, to_drop.item)

\* The join yields the next drop intent; the dropper's Position is read
\* (unwrap) and inserted on the item.
DropInsertPosition(e) ==
    /\ phase = "drop" /\ ~panicked /\ pc = "next" /\ e \in todo
    /\ entity' = e
    /\ todo' = todo \ {e}
    /\ IF e \in DOMAIN positions
          THEN /\ positions' = DropInsert(positions, e, wants_drop[e])
               /\ pc' = "remove"
               /\ UNCHANGED panicked
       ELSE /\ panicked' = TRUE
            /\ UNCHANGED <<positions, pc>>
    /\ UNCHANGED <<backpack, combat_stats, confused, suffer_damage, wants_use,
                   wants_pickup, wants_drop, gamelog, deleted, phase, targets,
                   used_item, passes, readonly>>

\* InBackpack is removed, then the player's drop is logged.
DropRemoveBackpack ==
    /\ phase = "drop" /\ ~panicked /\ pc = "remove"
    /\ LET to_drop == wants_drop[entity] IN
         /\ backpack' = DropRemove(backpack, to_drop)
         /\ IF entity # player_entity
               THEN UNCHANGED <<gamelog, panicked>>
            ELSE IF to_drop.item \in names
               THEN /\ gamelog' = Append(gamelog, LogEntry("drop", to_drop.item, 0, 0))
                    /\ UNCHANGED panicked
            ELSE /\ panicked' = TRUE
                 /\ UNCHANGED gamelog
    /\ pc' = "next"
    /\ UNCHANGED <<positions, combat_stats, confused, suffer_damage, wants_use,
                   wants_pickup, wants_drop, deleted, phase, todo, entity,
                   targets, used_item, passes, readonly>>

\* Mutant of EndDrop: the Use-Intents are cleared with the drop intents.
EndDropClearsAll ==
    /\ phase = "drop" /\ ~panicked /\ pc = "next" /\ todo = {}
    /\ wants_drop' = Empty
    /\ wants_use' = Empty
    /\ phase' = "idle"
    /\ UNCHANGED <<positions, backpack, combat_stats, confused, suffer_damage,
                   wants_pickup, gamelog, deleted, todo, pc, entity,
                   targets, used_item, passes, panicked, readonly>>

\* wants_drop.clear()
EndDrop ==
    /\ phase = "drop" /\ ~panicked /\ pc = "next" /\ todo = {}
    /\ wants_drop' = Empty
    /\ phase' = "idle"
    /\ UNCHANGED <<positions, backpack, combat_stats, confused, suffer_damage,
                   wants_use, wants_pickup, gamelog, deleted, todo, pc, entity,
                   targets, used_item, passes, panicked, readonly>>

\* ------------------------------------------------- worlds
\* A storage holding `v` for entity `e`, or nothing, for each v in `values`.
Optional(e, values) == {Empty} \cup {Insert(Empty, e, v) : v \in values}

Some(p) == <<p>>

None == <<>>

WantsToUseItem(item, target) == [item |-> item, target |-> target]

\* The world the item-use system is run on: the player (1) stands at (1,1)
\* carrying item 3, whose effect components vary; item 4 is a consumable
\* that damages and confuses and lies on the ground, on the border or under
\* the monster's feet; the monster (2) stands one or two tiles east of the
\* player and may lack a Name.  The player wants to use item 3; the monster
\* wants to use item 3 or item 4.
Layouts ==
    {Insert(Insert(Insert(Empty, 1, <<1, 1>>), 2, l[1]), 4, l[2]) :
        l \in {<<<<2, 1>>, <<2, 1>>>>, <<<<3, 1>>, <<0, 1>>>>, <<<<3, 1>>, <<3, 1>>>>}}

Init ==
    /\ positions \in Layouts
    /\ tile_content = IndexMap(positions)
    /\ backpack = Insert(Empty, 3, 1)
    /\ names \in {Entity, Entity \ {2}}
    /\ consumables \in {{4}, {3, 4}}
    /\ \E hp \in {1, MaxHp} :
         combat_stats = Insert(Insert(Empty, 1, [hp |-> hp, max_hp |-> MaxHp]),
                               2, [hp |-> 1, max_hp |-> MaxHp])
    /\ healing \in Optional(3, 1 .. MaxAmount)
    /\ \E d \in Optional(3, {MaxAmount}) : inflict_damage = Insert(d, 4, 1)
    /\ aoe \in Optional(3, {1})
    /\ \E c \in Optional(3, {MaxAmount}) : confused = Insert(c, 4, 1)
    /\ suffer_damage = Empty
    /\ \E pt \in {None, Some(<<0, 1>>), Some(<<1, 1>>), Some(<<3, 1>>)},
          mw \in {WantsToUseItem(4, None),
                  WantsToUseItem(4, Some(<<3, 1>>)),
                  WantsToUseItem(3, Some(<<1, 1>>))} :
         wants_use = Insert(Insert(Empty, 2, mw), 1, WantsToUseItem(3, pt))
    /\ wants_pickup = Empty
    /\ wants_drop = Empty
    /\ gamelog = <<>>
    /\ deleted = {}
    /\ phase = "idle"
    /\ todo = {}
    /\ pc = "next"
    /\ entity = 0
    /\ targets = <<>>
    /\ used_item = TRUE
    /\ passes = 0
    /\ panicked = FALSE

Next ==
    \/ BeginUse
    \/ \E e \in Actors : UseItem(e)
    \/ EndUse

Spec == Init /\ [][Next]_vars

\* The world the three systems are run on, in any order: item 3 (a healing
\* consumable) lies at (2,1) or is carried by the player, item 4 is carried
\* by the monster or lies at (3,1); the monster may lack a Position.  Each
\* actor may want to pick up and may want to drop an item, whoever holds it.
TransferInit ==
    /\ \E mp \in Optional(2, {<<3, 1>>}), i3 \in BOOLEAN, i4 \in BOOLEAN :
         /\ positions =
              LET p1 == Insert(mp, 1, <<1, 1>>)
                  p3 == IF i3 THEN Insert(p1, 3, <<2, 1>>) ELSE p1
              IN IF i4 THEN Insert(p3, 4, <<3, 1>>) ELSE p3
         /\ backpack =
              LET b3 == IF i3 THEN Empty ELSE Insert(Empty, 3, 1)
              IN IF i4 THEN b3 ELSE Insert(b3, 4, 2)
         /\ tile_content = IndexMap(positions)
    /\ names \in {Entity, Entity \ {3}}
    /\ consumables = {3}
    /\ combat_stats = Insert(Insert(Empty, 1, [hp |-> 1, max_hp |-> MaxHp]),
                             2, [hp |-> 1, max_hp |-> MaxHp])
    /\ healing = Insert(Empty, 3, MaxAmount)
    /\ inflict_damage = Empty
    /\ aoe = Empty
    /\ confused = Empty
    /\ suffer_damage = Empty
    /\ wants_use \in Optional(1, {WantsToUseItem(3, None)})
    /\ \E w1 \in Optional(1, {WantsToPickupItem(3, 1), WantsToPickupItem(4, 1)}),
          w2 \in Optional(2, {WantsToPickupItem(3, 2)}) :
         wants_pickup = [e \in DOMAIN w1 \cup DOMAIN w2 |->
                            IF e \in DOMAIN w1 THEN w1[e] ELSE w2[e]]
    /\ \E w1 \in Optional(1, {WantsToDropItem(3), WantsToDropItem(4)}),
          w2 \in Optional(2, {WantsToDropItem(3)}) :
         wants_drop = [e \in DOMAIN w1 \cup DOMAIN w2 |->
                          IF e \in DOMAIN w1 THEN w1[e] ELSE w2[e]]
    /\ gamelog = <<>>
    /\ deleted = {}
    /\ phase = "idle"
    /\ todo = {}
    /\ pc = "next"
    /\ entity = 0
    /\ targets = <<>>
    /\ used_item = TRUE
    /\ passes = 0
    /\ panicked = FALSE

TransferNext ==
    \/ BeginPickup
    \/ \E e \in Actors : PickupRemovePosition(e)
    \/ PickupInsertBackpack
    \/ EndPickup
    \/ BeginUse
    \/ \E e \in Actors : UseItem(e)
    \/ EndUse
    \/ BeginDrop
    \/ \E e \in Actors : DropInsertPosition(e)
    \/ DropRemoveBackpack
    \/ EndDrop

TransferSpec == TransferInit /\ [][TransferNext]_vars

\* ================================================= properties
\* The step that runs the loop body of ItemUseSystem for e's intent to its
\* end (no unwrap fails).
UseCompleted(e) == phase = "use" /\ e \in todo /\ e \notin todo' /\ ~panicked'

Pending(store, t) == IF t \in DOMAIN store THEN store[t] ELSE 0

Count(t, ts) == Cardinality({i \in DOMAIN ts : ts[i] = t})

HasEntry(kind, item) ==
    \E i \in DOMAIN gamelog : gamelog[i].kind = kind /\ gamelog[i].item = item

\* C1: after the loop body has run for a Use-Intent whose aim point is
\* absent, the resolved target list is exactly the one entity that holds
\* the intent, whoever that entity is.
C1_SelfTargetIsRequester ==
    (phase = "use" /\ entity \in DOMAIN wants_use /\ wants_use[entity].target = None)
        => targets = <<entity>>

\* C2: an iteration that runs to its end deletes the used item if and only
\* if the item is Consumable and the use counts as used: the item has
\* neither a damage nor a confusion effect, or the target list is not empty.
\* Nothing but the used item is ever deleted.
C2_DeleteIffConsumableAndUsed ==
    [][\A e \in Actors : UseCompleted(e) =>
         LET item == wants_use[e].item
             used == (item \notin DOMAIN inflict_damage /\ item \notin DOMAIN confused)
                     \/ targets' # <<>>
         IN /\ used_item' = used
            /\ (item \in consumables /\ used) => (item \in deleted' /\ deleted' = deleted \cup {item})
            /\ ~(item \in consumables /\ used) => deleted' = deleted]_vars

\* C2 witness: the player has used a pure-healing consumable on self and it
\* is deleted.
C2_Witness ==
    /\ phase = "use" /\ entity = player_entity /\ ~panicked
    /\ wants_use[entity].target = None
    /\ LET item == wants_use[entity].item
       IN /\ item \in DOMAIN healing /\ item \in consumables
          /\ item \notin DOMAIN inflict_damage /\ item \notin DOMAIN confused
          /\ item \in deleted

\* The damage the intent held by e sends to t in one pass.
IntentDamage(e, t) ==
    LET item == wants_use[e].item
        ts == CHOOSE x \in Targeting(e, wants_use[e]) : TRUE
    IN IF item \in DOMAIN inflict_damage THEN inflict_damage[item] * Count(t, ts) ELSE 0

\* The damage the intents held by the entities of S send to t in one pass.
RECURSIVE DamageSum(_, _)
DamageSum(S, t) ==
    IF S = {} THEN 0
    ELSE LET e == CHOOSE y \in S : TRUE
         IN IntentDamage(e, t) + DamageSum(S \ {e}, t)

\* C3: whenever the item-use system has run to its end, every entity's
\* pending damage is the sum, over the passes run and over all Use-Intents,
\* of the damage of every intent that resolved to it, in whichever order the
\* intents were processed.
C3_DamageAccumulates ==
    (phase = "idle" /\ ~panicked) =>
        \A t \in Entity :
            Pending(suffer_damage, t) = passes * DamageSum(DOMAIN wants_use, t)

\* C3 witness: after one pass, an entity that two damaging intents resolved
\* to holds the sum of both damage amounts.
C3_Witness ==
    /\ phase = "idle" /\ ~panicked /\ passes = 1
    /\ DOMAIN wants_use = {1, 2}
    /\ \E t \in Entity :
         /\ IntentDamage(1, t) > 0 /\ IntentDamage(2, t) > 0
         /\ IntentDamage(1, t) # IntentDamage(2, t)
         /\ suffer_damage[t] = IntentDamage(1, t) + IntentDamage(2, t)

\* C4: an iteration that runs to its end with an item healing H sets the hp
\* of every target that has combat stats to min(max_hp, hp + H), so that hp
\* does not exceed max_hp and a target at max_hp keeps its hp; max_hp and the
\* stats of every other entity are unchanged.
C4_HealingCapped ==
    [][\A e \in Actors :
         (UseCompleted(e) /\ wants_use[e].item \in DOMAIN healing) =>
            /\ DOMAIN combat_stats' = DOMAIN combat_stats
            /\ \A t \in DOMAIN combat_stats :
                 LET old == combat_stats[t]
                     new == combat_stats'[t]
                     H == healing[wants_use[e].item]
                 IN IF Count(t, targets') > 0
                    THEN /\ new.max_hp = old.max_hp
                         /\ new.hp = (IF old.hp + H < old.max_hp
                                      THEN old.hp + H ELSE old.max_hp)
                         /\ new.hp <= new.max_hp
                         /\ (old.hp = old.max_hp => new.hp = old.hp)
                    ELSE new = old]_vars

\* C4 witness: in the second pass the player, already at max_hp after the
\* first, has healed self again and is still at max_hp.
C4_Witness ==
    /\ phase = "use" /\ passes = 2 /\ entity = player_entity /\ ~panicked
    /\ targets = <<player_entity>>
    /\ wants_use[entity].item \in DOMAIN healing
    /\ healing[wants_use[entity].item] = MaxAmount
    /\ combat_stats[player_entity].hp = combat_stats[player_entity].max_hp

\* C5: an iteration for a damage item without AreaOfEffect aimed at a tile
\* with no occupants changes no pending damage, appends no log line and
\* deletes nothing.
C5_EmptyTileNoOp ==
    [][\A e \in Actors :
         (/\ phase = "use" /\ e \in todo /\ e \notin todo'
          /\ wants_use[e].item \in DOMAIN inflict_damage
          /\ wants_use[e].item \notin DOMAIN aoe
          /\ wants_use[e].target # None
          /\ LET p == wants_use[e].target[1]
             IN tile_content[xy_idx(p[1], p[2])] = <<>>)
         => /\ suffer_damage' = suffer_damage
            /\ gamelog' = gamelog
            /\ deleted' = deleted
            /\ ~panicked']_vars

\* C5 witness: first in the pass, the player has aimed a consumable damage item without
\* AreaOfEffect at an empty tile; nothing is pending, logged or deleted.
C5_Witness ==
    /\ phase = "use" /\ passes = 1 /\ entity = player_entity /\ todo = {2}
    /\ wants_use[entity].target # None
    /\ LET item == wants_use[entity].item
       IN /\ item \in DOMAIN inflict_damage /\ item \notin DOMAIN aoe
          /\ item \in consumables /\ item \notin deleted
    /\ targets = <<>> /\ ~used_item
    /\ suffer_damage = Empty /\ gamelog = <<>>

\* The tiles of the area of an item of radius r aimed at p: what the
\* visibility query returns, less the map's outer border.
Area(p, r) ==
    {q \in field_of_view(p, r) :
        q[1] # 0 /\ q[1] # MapWidth - 1 /\ q[2] # 0 /\ q[2] # MapHeight - 1}

InArea(t, p, r) ==
    \E q \in Area(p, r) : Count(t, tile_content[xy_idx(q[1], q[2])]) > 0

\* C6: an iteration that runs to its end for an aimed item with AreaOfEffect
\* radius r and damage d adds exactly d to the pending damage of each entity
\* on a tile of the area and nothing to any other entity.
C6_AoEFanOut ==
    [][\A e \in Actors :
         (/\ UseCompleted(e)
          /\ wants_use[e].target # None
          /\ wants_use[e].item \in DOMAIN aoe
          /\ wants_use[e].item \in DOMAIN inflict_damage)
         => LET item == wants_use[e].item
                p == wants_use[e].target[1]
            IN \A t \in Entity :
                 Pending(suffer_damage', t) =
                    Pending(suffer_damage, t)
                    + (IF InArea(t, p, aoe[item]) THEN inflict_damage[item] ELSE 0)]_vars

\* C6 witness: first in the pass, the player's area item has hit two or more entities with d
\* each, and an entity standing inside the border but outside the radius
\* has no pending damage.
C6_Witness ==
    /\ phase = "use" /\ passes = 1 /\ entity = player_entity /\ ~panicked
    /\ todo = {2}
    /\ wants_use[entity].target # None
    /\ LET item == wants_use[entity].item
       IN /\ item \in DOMAIN aoe /\ item \in DOMAIN inflict_damage
          /\ Len(targets) >= 2
          /\ \A i \in DOMAIN targets : Pending(suffer_damage, targets[i]) = inflict_damage[item]
          /\ \E t \in DOMAIN positions :
               /\ Count(t, targets) = 0
               /\ positions[t][1] # 0 /\ positions[t][1] # MapWidth - 1
               /\ positions[t][2] # 0 /\ positions[t][2] # MapHeight - 1
               /\ t \notin DOMAIN suffer_damage

\* C7: an iteration that runs to its end for an item whose Confusion has
\* turns = T leaves every target with a Confusion of exactly T turns,
\* whatever Confusion the target had, and no other entity's Confusion
\* changed.
C7_ConfusionLastWriterWins ==
    [][\A e \in Actors :
         (UseCompleted(e) /\ wants_use[e].item \in DOMAIN confused) =>
            LET T == confused[wants_use[e].item]
            IN \A t \in Entity :
                 IF Count(t, targets') > 0
                 THEN t \in DOMAIN confused' /\ confused'[t] = T
                 ELSE Pending(confused', t) = Pending(confused, t)]_vars

\* C7 witness: the monster, confused for 1 turn by the first intent of the
\* pass, has then been confused by the player's item of MaxAmount turns and
\* holds MaxAmount turns, not the sum.
C7_Witness ==
    /\ phase = "use" /\ passes = 1 /\ entity = player_entity /\ todo = {}
    /\ ~panicked
    /\ DOMAIN wants_use = {1, 2}
    /\ wants_use[2] = WantsToUseItem(4, Some(<<3, 1>>))
    /\ wants_use[1].target = Some(<<3, 1>>)
    /\ wants_use[1].item \in DOMAIN confused
    /\ confused[4] = 1
    /\ Count(2, targets) = 1
    /\ confused[2] = MaxAmount /\ confused[wants_use[1].item] = MaxAmount

\* C8: between system runs every item has exactly one of Position and
\* InBackpack.
C8_PositionXorCarried ==
    phase = "idle" =>
        \A i \in Items : (i \in DOMAIN positions) # (i \in DOMAIN backpack)

\* C8 witness: both actors' pickup intents named item 3 in one pass (the
\* player's is logged, the monster's insert came last) and the item is
\* carried and has no Position.
C8_Witness ==
    /\ phase = "idle" /\ HasEntry("pickup", 3)
    /\ 3 \in DOMAIN backpack /\ backpack[3] = 2
    /\ 3 \notin DOMAIN positions

\* C9: when the loop body of ItemDropSystem has run for a dropper that has
\* a Position, the dropped item's Position is the dropper's Position and the
\* item has no InBackpack.
C9_DropAtDropper ==
    (phase = "drop" /\ pc = "next" /\ entity \in DOMAIN wants_drop
        /\ entity \in DOMAIN positions) =>
        LET item == wants_drop[entity].item
        IN /\ item \in DOMAIN positions
           /\ positions[item] = positions[entity]
           /\ item \notin DOMAIN backpack

\* C9 witness: item 3, which lay at (2,1), was picked up by the player and
\* then dropped by the player standing at (1,1): it lies at (1,1), uncarried.
C9_Witness ==
    /\ phase = "drop" /\ pc = "next" /\ entity = player_entity
    /\ Count(3, tile_content[xy_idx(2, 1)]) = 1
    /\ \E i, j \in DOMAIN gamelog :
         /\ i < j
         /\ gamelog[i] = LogEntry("pickup", 3, 0, 0)
         /\ gamelog[j] = LogEntry("drop", 3, 0, 0)
    /\ positions[player_entity] = <<1, 1>>
    /\ 3 \in DOMAIN positions /\ positions[3] = <<1, 1>>
    /\ 3 \notin DOMAIN backpack

\* C10: at no step of a pickup or a drop, each component insertion and
\* removal being a step, does an item hold both a Position and an
\* InBackpack.
C10_NeverBoth ==
    \A i \in Items : ~(i \in DOMAIN positions /\ i \in DOMAIN backpack)

\* A step of the loop of ItemUseSystem for e's intent, run to its end or cut
\* short by a panic.
UseRan(e) == phase = "use" /\ e \in todo /\ e \notin todo'

\* C11: no iteration of the intent loop, whether it runs to its end or
\* panics, lowers any entity's hp or changes any max_hp; an iteration for an
\* item without a healing effect leaves the combat stats as they were,
\* whatever damage it queues.
C11_DamageLeavesHp ==
    [][\A e \in Actors : UseRan(e) =>
         /\ DOMAIN combat_stats' = DOMAIN combat_stats
         /\ \A t \in DOMAIN combat_stats :
              /\ combat_stats'[t].hp >= combat_stats[t].hp
              /\ combat_stats'[t].max_hp = combat_stats[t].max_hp
         /\ wants_use[e].item \notin DOMAIN healing => combat_stats' = combat_stats]_vars

\* C11 witness: the monster has pending damage from a damage item and still
\* has the hp it started with.
C11_Witness ==
    /\ phase = "use" /\ passes = 1 /\ entity = player_entity /\ ~panicked
    /\ wants_use[entity].item \in DOMAIN inflict_damage
    /\ wants_use[entity].item \notin DOMAIN healing
    /\ Count(2, targets) = 1
    /\ Pending(suffer_damage, 2) >= inflict_damage[wants_use[entity].item]
    /\ combat_stats[2].hp = 1

\* C12: the Use-Intents are never changed; a pass starts with every intent
\* to do, each step of the loop resolves the targets of exactly one intent
\* still to do and takes it off, and the pass ends only when none is left:
\* every pass that runs to its end processes each intent once, and the next
\* pass processes it again.
C12_EachIntentOncePerPass ==
    [][/\ wants_use' = wants_use
       /\ (phase = "idle" /\ phase' = "use") => todo' = DOMAIN wants_use
       /\ (phase = "use" /\ phase' = "use") =>
             \E e \in todo : /\ todo' = todo \ {e}
                             /\ entity' = e
                             /\ targets' \in Targeting(e, wants_use[e])
       /\ (phase = "use" /\ phase' = "idle") => todo = {}]_vars

\* C12 witness: two passes have run to their end and the monster's intent,
\* still there, has damaged the player once in each.
C12_Witness ==
    /\ phase = "idle" /\ passes = 2 /\ ~panicked
    /\ wants_use[2] = WantsToUseItem(4, None)
    /\ wants_use[1].item \notin DOMAIN inflict_damage
    /\ suffer_damage[player_entity] = inflict_damage[4] + inflict_damage[4]

\* C13: when an intent has hit a missing component and aborted, no intent
\* of the same pass is left unprocessed.
C13_OthersStillProcessed ==
    (phase = "use" /\ panicked) => todo = {}

\* C14: inserting InBackpack for a pickup intent whose item already has an
\* InBackpack leaves the InBackpack storage, and so the item's owner, as it
\* was.
C14_CarriedOwnerKept ==
    [][(phase = "pickup" /\ pc = "insert"
            /\ wants_pickup[entity].item \in DOMAIN backpack)
        => backpack' = backpack]_vars

OnBorder(q) ==
    q[1] = 0 \/ q[1] = MapWidth - 1 \/ q[2] = 0 \/ q[2] = MapHeight - 1

\* C15: after the targeting of an aimed item with AreaOfEffect, no entity
\* the map lists on a tile of the outer border is among the targets.
C15_BorderExcluded ==
    (phase = "use" /\ entity \in DOMAIN wants_use
        /\ wants_use[entity].target # None
        /\ wants_use[entity].item \in DOMAIN aoe) =>
        \A q \in Points : OnBorder(q) =>
            \A t \in Entity :
                Count(t, tile_content[xy_idx(q[1], q[2])]) > 0 => Count(t, targets) = 0

\* C15 witness: the player has aimed an area item at the border tile (0,1),
\* where item 4 lies; the targets are the player alone.
C15_Witness ==
    /\ phase = "use" /\ entity = player_entity
    /\ wants_use[entity].target = Some(<<0, 1>>)
    /\ wants_use[entity].item \in DOMAIN aoe
    /\ tile_content[xy_idx(0, 1)] = <<4>>
    /\ targets = <<player_entity>>

\* C16: an iteration that runs to its end for an aimed item without
\* AreaOfEffect has as targets exactly the occupants of the aimed cell, each
\* once; it adds the item's damage to each of them and to nobody else,
\* leaves each of them, and nobody else, with the item's Confusion, and
\* changes the hp of none but them.
C16_SingleTileTargets ==
    [][\A e \in Actors :
         (/\ UseCompleted(e)
          /\ wants_use[e].target # None
          /\ wants_use[e].item \notin DOMAIN aoe)
         => LET item == wants_use[e].item
                p == wants_use[e].target[1]
                cell == tile_content[xy_idx(p[1], p[2])]
                d == IF item \in DOMAIN inflict_damage THEN inflict_damage[item] ELSE 0
            IN /\ \A t \in Entity : Count(t, targets') = Count(t, cell)
               /\ \A t \in Entity : Count(t, cell) <= 1
               /\ \A t \in Entity :
                    Pending(suffer_damage', t) =
                       Pending(suffer_damage, t) + (IF Count(t, cell) > 0 THEN d ELSE 0)
               /\ \A t \in Entity :
                    Pending(confused', t) =
                       (IF Count(t, cell) > 0 /\ item \in DOMAIN confused
                        THEN confused[item] ELSE Pending(confused, t))
               /\ \A t \in DOMAIN combat_stats :
                    (Count(t, cell) = 0 \/ item \notin DOMAIN healing)
                       => combat_stats'[t] = combat_stats[t]]_vars

\* C16 witness: first in the pass, the player has aimed a damage item at
\* the cell (3,1), where the monster stands on item 4: both have the damage
\* pending and the player, on another cell, has none.
C16_Witness ==
    /\ phase = "use" /\ passes = 1 /\ entity = player_entity /\ todo = {2}
    /\ ~panicked
    /\ wants_use[entity].target = Some(<<3, 1>>)
    /\ wants_use[entity].item \notin DOMAIN aoe
    /\ wants_use[entity].item \in DOMAIN inflict_damage
    /\ targets = <<2, 4>>
    /\ suffer_damage[2] = inflict_damage[wants_use[entity].item]
    /\ suffer_damage[4] = inflict_damage[wants_use[entity].item]
    /\ player_entity \notin DOMAIN suffer_damage

KindRank(kind) == IF kind = "heal" THEN 1 ELSE IF kind = "damage" THEN 2 ELSE 3

\* C17: in every iteration of the intent loop, run to its end or cut short
\* by a panic, the log lines it appends are in the order healing, damage,
\* confusion; if it queued any damage, the healing of every target was
\* already done; and if it panicked, no Confusion was committed and nothing
\* deleted (commit and deletion follow all three effect blocks).
C17_EffectOrder ==
    [][\A e \in Actors : UseRan(e) =>
         LET item == wants_use[e].item
             n == Len(gamelog)
         IN /\ Len(gamelog') >= n
            /\ SubSeq(gamelog', 1, n) = gamelog
            /\ \A i, j \in (n + 1) .. Len(gamelog') :
                 i < j => KindRank(gamelog'[i].kind) <= KindRank(gamelog'[j].kind)
            /\ (suffer_damage' # suffer_damage /\ item \in DOMAIN healing) =>
                 \A t \in DOMAIN combat_stats :
                    Count(t, targets') > 0 =>
                       combat_stats'[t].hp =
                          Min(combat_stats[t].max_hp, combat_stats[t].hp + healing[item])
            /\ panicked' => (confused' = confused /\ deleted' = deleted)]_vars

\* C17 witness: first in the pass, the player has used on self an item with
\* all three effects; the log holds a healing, a damage and a confusion
\* line, in that order.
C17_Witness ==
    /\ phase = "use" /\ passes = 1 /\ entity = player_entity /\ todo = {2}
    /\ ~panicked /\ targets = <<player_entity>>
    /\ Len(gamelog) = 3
    /\ gamelog[1].kind = "heal" /\ gamelog[2].kind = "damage"
    /\ gamelog[3].kind = "confuse"

\* C18: an iteration of the intent loop that aborts on a missing component
\* has applied none of the item's effects: hp, pending damage, Confusion,
\* log and deletions are as before it.
C18_AllOrNothing ==
    [][\A e \in Actors : (UseRan(e) /\ panicked') =>
         /\ combat_stats' = combat_stats
         /\ suffer_damage' = suffer_damage
         /\ confused' = confused
         /\ gamelog' = gamelog
         /\ deleted' = deleted]_vars

HealLines ==
    Cardinality({i \in DOMAIN gamelog : gamelog[i].kind = "heal"})

C20_DeletedItemInert ==
    [][\A e \in Actors :
         (UseRan(e) /\ passes = 1 /\ wants_use[e].item \in deleted) =>
            /\ combat_stats' = combat_stats
            /\ suffer_damage' = suffer_damage
            /\ confused' = confused]_vars

====
